---- MODULE Spec2Model ----
(***************************************************************************)
(* The consensource state-delta subscriber: Subscriber::start/stop         *)
(* (src/src/subscriber.rs), EventHandler::handle_events and its parsers    *)
(* (src/src/event_handler.rs), the container transform                     *)
(* (src/src/transformer.rs) and the per-entity at_block transforms.        *)
(*                                                                         *)
(* Text is modelled as a sequence of one-character strings where the code  *)
(* looks inside it (event attribute values, ledger addresses) and as a     *)
(* TLA+ string otherwise.  A Rust Option is a sequence of length 0 (None)  *)
(* or 1 (Some).  A Rust panic is an outcome of its own, "panic".           *)
(***************************************************************************)
EXTENDS Integers, Sequences, FiniteSets, TLC

\* ---------------------------------------------------------------- bounds
\* events per frame (commit-focused frames)
MaxEvents == 3
\* state changes per frame (delta-focused frames)
MaxChanges == 2
\* length of the known-block-id list handed to start
MaxKnown == 15
\* frames the validator delivers in one run
MaxFrames == 2
\* subscribe requests in one run (the recursion of start is unbounded)
MaxSubscribes == 4
\* width of the two's-complement integers standing for i64/u64
I64Bits == 16
\* entries of a repeated field of a domain message (transform-focused frames)
MaxEntries == 2

\* ------------------------------------------------------------- constants
KNOWN_COUNT == 10
NULL_BLOCK_ID == "0000000000000000"
MAX_BLOCK_NUM == 2^(I64Bits - 1) - 1
I64_MIN == -(2^(I64Bits - 1))

None == <<>>
Some(x) == <<x>>

\* `x as i64` for an unsigned x of the same width
as_i64(x) == IF x >= 2^(I64Bits - 1) THEN x - 2^I64Bits ELSE x

\* ------------------------------------------------ str::parse::<i64>()
DigitOf(c) ==
  CASE c = "0" -> 0 [] c = "1" -> 1 [] c = "2" -> 2 [] c = "3" -> 3
    [] c = "4" -> 4 [] c = "5" -> 5 [] c = "6" -> 6 [] c = "7" -> 7
    [] c = "8" -> 8 [] c = "9" -> 9 [] OTHER -> -1

RECURSIVE parse_digits(_, _, _)
parse_digits(s, acc, sign) ==
  IF s = <<>> THEN [ok |-> TRUE, val |-> acc]
  ELSE LET d == DigitOf(Head(s)) IN
       IF d < 0 THEN [ok |-> FALSE, val |-> 0]
       ELSE LET next == acc * 10 + sign * d IN
            IF next > MAX_BLOCK_NUM \/ next < I64_MIN
            THEN [ok |-> FALSE, val |-> 0]
            ELSE parse_digits(Tail(s), next, sign)

parse_i64(s) ==
  IF s = <<>> THEN [ok |-> FALSE, val |-> 0]
  ELSE IF Head(s) = "+" \/ Head(s) = "-"
       THEN IF Len(s) = 1 THEN [ok |-> FALSE, val |-> 0]
            ELSE parse_digits(Tail(s), 0, IF Head(s) = "-" THEN -1 ELSE 1)
       ELSE parse_digits(s, 0, 1)

\* ------------------------------------------------------------ addressing
\* common::addressing: the family prefix, the regex ^prefix, the classifier
NamespacePrefix == <<"c", "r">>

IsPrefixOf(p, s) == Len(s) >= Len(p) /\ SubSeq(s, 1, Len(p)) = p

namespace_regex_is_match(address) == IsPrefixOf(NamespacePrefix, address)

get_address_type(address) ==
  IF ~IsPrefixOf(NamespacePrefix, address) \/ Len(address) <= Len(NamespacePrefix)
  THEN "AnotherFamily"
  ELSE LET tag == address[Len(NamespacePrefix) + 1] IN
       CASE tag = "o" -> "Organization"
         [] tag = "a" -> "Agent"
         [] tag = "c" -> "Certificate"
         [] tag = "r" -> "Request"
         [] tag = "s" -> "Standard"
         [] OTHER -> "AnotherFamily"

\* --------------------------------------------------- at_block transforms
MapSeq(s, F(_)) == [i \in 1..Len(s) |-> F(s[i])]

\* the empty string is kept as a value
OptText_keep_empty(t) == Some(t)

OptText(t) == IF t = "" THEN None ELSE Some(t)

OrganizationTypeEnum(t) ==
  CASE t = "CERTIFYING_BODY" -> "CertifyingBody"
    [] t = "STANDARDS_BODY" -> "StandardsBody"
    [] t = "FACTORY" -> "Factory"
    [] OTHER -> "UnsetType"

RoleEnum(r) ==
  CASE r = "ADMIN" -> "Admin" [] r = "TRANSACTOR" -> "Transactor"
    [] OTHER -> "UnsetRole"

RequestStatusEnum(s) ==
  CASE s = "OPEN" -> "Open" [] s = "IN_PROGRESS" -> "InProgress"
    [] s = "CLOSED" -> "Closed" [] s = "CERTIFIED" -> "Certified"
    [] OTHER -> "UnsetStatus"

NewAccreditation(block_num, org, accreditation) ==
  [ organization_id |-> org.id,
    standard_id |-> accreditation.standard_id,
    standard_version |-> accreditation.standard_version,
    accreditor_id |-> accreditation.accreditor_id,
    valid_from |-> as_i64(accreditation.valid_from),
    valid_to |-> as_i64(accreditation.valid_to),
    start_block_num |-> block_num,
    end_block_num |-> MAX_BLOCK_NUM ]

NewAuthorization(block_num, org, auth) ==
  [ organization_id |-> org.id,
    public_key |-> auth.public_key,
    role |-> RoleEnum(auth.role),
    start_block_num |-> block_num,
    end_block_num |-> MAX_BLOCK_NUM ]

NewContact(block_num, org, contact) ==
  [ organization_id |-> org.id,
    name |-> contact.name,
    phone_number |-> contact.phone_number,
    language_code |-> contact.language_code,
    start_block_num |-> block_num,
    end_block_num |-> MAX_BLOCK_NUM ]

NewAddress(block_num, org, address) ==
  [ organization_id |-> org.id,
    street_line_1 |-> address.street_line_1,
    street_line_2 |-> OptText(address.street_line_2),
    city |-> address.city,
    state_province |-> OptText(address.state_province),
    country |-> address.country,
    postal_code |-> OptText(address.postal_code),
    start_block_num |-> block_num,
    end_block_num |-> MAX_BLOCK_NUM ]

\* The result of a transform: the model, or a panic (Option::unwrap on None).
Model(m) == [panicked |-> FALSE, model |-> m]
ModelPanic == [panicked |-> TRUE, model |-> <<>>]

\* the accreditation list is built for every organization type
at_block_organization_accredit_all(block_num, org) ==
  LET address == MapSeq(org.address, LAMBDA a : NewAddress(block_num, org, a))
  IN IF org.organization_type = "FACTORY" /\ address = None
     THEN ModelPanic
     ELSE Model([ organization |->
                    [ organization_id |-> org.id,
                      name |-> org.name,
                      organization_type |-> OrganizationTypeEnum(org.organization_type),
                      start_block_num |-> block_num,
                      end_block_num |-> MAX_BLOCK_NUM ],
                  accreditations |->
                    Some(MapSeq(org.accreditations,
                                LAMBDA a : NewAccreditation(block_num, org, a))),
                  address |-> IF org.organization_type = "FACTORY"
                              THEN Some(address[1]) ELSE None,
                  authorizations |->
                    MapSeq(org.authorizations,
                           LAMBDA a : NewAuthorization(block_num, org, a)),
                  contacts |->
                    MapSeq(org.contacts, LAMBDA c : NewContact(block_num, org, c)) ])

at_block_organization(block_num, org) ==
  LET new_org == [ organization_id |-> org.id,
                   name |-> org.name,
                   organization_type |-> OrganizationTypeEnum(org.organization_type),
                   start_block_num |-> block_num,
                   end_block_num |-> MAX_BLOCK_NUM ]
      new_accreditations ==
        IF org.organization_type = "CERTIFYING_BODY"
        THEN Some(MapSeq(org.accreditations,
                         LAMBDA a : NewAccreditation(block_num, org, a)))
        ELSE None
      new_auths == MapSeq(org.authorizations,
                          LAMBDA a : NewAuthorization(block_num, org, a))
      new_contacts == MapSeq(org.contacts,
                             LAMBDA c : NewContact(block_num, org, c))
      address == MapSeq(org.address, LAMBDA a : NewAddress(block_num, org, a))
  IN IF org.organization_type = "FACTORY" /\ address = None
     THEN ModelPanic
     ELSE Model([ organization |-> new_org,
                  accreditations |-> new_accreditations,
                  address |-> IF org.organization_type = "FACTORY"
                              THEN Some(address[1]) ELSE None,
                  authorizations |-> new_auths,
                  contacts |-> new_contacts ])

at_block_agent(block_num, agent) ==
  Model([ public_key |-> agent.public_key,
          organization_id |-> OptText(agent.organization_id),
          name |-> agent.name,
          timestamp |-> as_i64(agent.timestamp),
          start_block_num |-> block_num,
          end_block_num |-> MAX_BLOCK_NUM ])

at_block_certificate(block_num, certificate) ==
  Model([ certificate_id |-> certificate.id,
          certifying_body_id |-> certificate.certifying_body_id,
          factory_id |-> certificate.factory_id,
          standard_id |-> certificate.standard_id,
          standard_version |-> certificate.standard_version,
          valid_from |-> as_i64(certificate.valid_from),
          valid_to |-> as_i64(certificate.valid_to),
          start_block_num |-> block_num,
          end_block_num |-> MAX_BLOCK_NUM ])

at_block_request(block_num, request) ==
  Model([ request_id |-> request.id,
          factory_id |-> request.factory_id,
          standard_id |-> request.standard_id,
          status |-> RequestStatusEnum(request.status),
          request_date |-> as_i64(request.request_date),
          start_block_num |-> block_num,
          end_block_num |-> MAX_BLOCK_NUM ])

NewStandardVersion(block_num, standard, version) ==
  [ standard_id |-> standard.id,
    version |-> version.version,
    link |-> version.link,
    description |-> version.description,
    approval_date |-> as_i64(version.approval_date),
    start_block_num |-> block_num,
    end_block_num |-> MAX_BLOCK_NUM ]

\* only the first version entry gets a record
at_block_standard_first_version(block_num, standard) ==
  Model([ standard |-> [ standard_id |-> standard.id,
                         organization_id |-> standard.organization_id,
                         name |-> standard.name,
                         start_block_num |-> block_num,
                         end_block_num |-> MAX_BLOCK_NUM ],
          versions |-> IF standard.versions = <<>> THEN <<>>
                       ELSE <<NewStandardVersion(block_num, standard,
                                                 standard.versions[1])>> ])

at_block_standard(block_num, standard) ==
  Model([ standard |-> [ standard_id |-> standard.id,
                         organization_id |-> standard.organization_id,
                         name |-> standard.name,
                         start_block_num |-> block_num,
                         end_block_num |-> MAX_BLOCK_NUM ],
          versions |-> MapSeq(standard.versions,
                              LAMBDA v : NewStandardVersion(block_num, standard, v)) ])

at_block(kind, block_num, state_value) ==
  CASE kind = "Organization" -> at_block_organization(block_num, state_value)
    [] kind = "Agent" -> at_block_agent(block_num, state_value)
    [] kind = "Certificate" -> at_block_certificate(block_num, state_value)
    [] kind = "Request" -> at_block_request(block_num, state_value)
    [] kind = "Standard" -> at_block_standard(block_num, state_value)

\* to_models with the block number dropped: every entry stamped at block 0
to_models_at_genesis(kind, entries, at_block_num) ==
  LET out == [i \in 1..Len(entries) |-> at_block(kind, 0, entries[i])]
  IN IF \E i \in 1..Len(entries) : out[i].panicked
     THEN ModelPanic
     ELSE Model([i \in 1..Len(entries) |-> out[i].model])

\* Container::to_models: at_block of every entry, in order; a panic in one
\* entry is a panic of the whole call.
to_models(kind, entries, at_block_num) ==
  LET out == [i \in 1..Len(entries) |-> at_block(kind, at_block_num, entries[i])]
  IN IF \E i \in 1..Len(entries) : out[i].panicked
     THEN ModelPanic
     ELSE Model([i \in 1..Len(entries) |-> out[i].model])

\* ------------------------------------------------------- event handling
BLOCK_COMMIT == "sawtooth/block-commit"
STATE_DELTA == "sawtooth/state-delta"

Block(num, id) == [block_num |-> num, block_id |-> id]
ZeroBlock == Block(0, <<>>)

\* Result<Block, SubscriberError>, or a panic
BlockOk(b) == [status |-> "Ok", block |-> b]
BlockErr == [status |-> "EventParseError", block |-> ZeroBlock]
BlockPanic == [status |-> "panic", block |-> ZeroBlock]

\* protobuf::parse_from_bytes(..).expect(..): the message, or a panic
unpack_data(data) == [panicked |-> ~data.decodes, message |-> data.message]

\* The closure of parse_block applied to one block-commit event.  Indexing
\* an empty attribute list panics; a failed parse returns Err before
\* block_id[0] is evaluated.
block_of_attributes(block_num, block_id) ==
  IF block_num = <<>> THEN BlockPanic
  ELSE IF ~parse_i64(block_num[1].value).ok THEN BlockErr
  ELSE IF block_id = <<>> THEN BlockPanic
  ELSE BlockOk(Block(parse_i64(block_num[1].value).val, block_id[1].value))

parse_block_commit_event(block_commit_event) ==
  block_of_attributes(
    SelectSeq(block_commit_event.attributes, LAMBDA a : a.key = "block_num"),
    SelectSeq(block_commit_event.attributes, LAMBDA a : a.key = "block_id"))

\* .next() in place of .last(): the first commit event wins
first_block(results) ==
  IF \E i \in 1..Len(results) : results[i].status = "panic" THEN BlockPanic
  ELSE IF results = <<>> THEN BlockErr
  ELSE results[1]

\* unwrap_or_default in place of unwrap_or_else(Err): no commit event gives
\* the zero Block
last_block_or_default(results) ==
  IF \E i \in 1..Len(results) : results[i].status = "panic" THEN BlockPanic
  ELSE IF results = <<>> THEN BlockOk(ZeroBlock)
  ELSE results[Len(results)]

\* .last() of the closure's results: it runs the closure on every commit
\* event in order (a panic in any of them unwinds) and keeps the last result.
last_block(results) ==
  IF \E i \in 1..Len(results) : results[i].status = "panic" THEN BlockPanic
  ELSE IF results = <<>> THEN BlockErr
  ELSE results[Len(results)]

\* filter(block-commit).map(closure).last().unwrap_or_else(Err)
parse_block(events) ==
  last_block(MapSeq(SelectSeq(events, LAMBDA e : e.event_type = BLOCK_COMMIT),
                    parse_block_commit_event))

RECURSIVE FlattenSeq(_)
FlattenSeq(ss) == IF ss = <<>> THEN <<>> ELSE Head(ss) \o FlattenSeq(Tail(ss))

\* the namespace filter left out
all_state_changes(state_changes) == state_changes

in_namespace(state_changes) ==
  SelectSeq(state_changes, LAMBDA c : namespace_regex_is_match(c.address))

\* flat_map over the unpacked change lists, each filtered by the regex
filter_state_changes(lists) ==
  IF \E i \in 1..Len(lists) : lists[i].panicked
  THEN [status |-> "panic", state_changes |-> <<>>]
  ELSE [status |-> "Ok",
        state_changes |->
          FlattenSeq([i \in 1..Len(lists) |-> in_namespace(lists[i].message)])]

\* filter(state-delta).flat_map(unpack, filter by the namespace regex)
parse_state_delta_events(events) ==
  filter_state_changes(
    MapSeq(SelectSeq(events, LAMBDA e : e.event_type = STATE_DELTA),
           LAMBDA e : unpack_data(e.data)))

OperationName(kind) ==
  CASE kind = "Organization" -> "CreateOrganization"
    [] kind = "Agent" -> "CreateAgent"
    [] kind = "Certificate" -> "CreateCertificate"
    [] kind = "Request" -> "CreateRequest"
    [] kind = "Standard" -> "CreateStandard"

NoOperation == [type |-> "None", models |-> <<>>]

operation_of(address_type, models) ==
  IF models.panicked
  THEN [status |-> "panic", operation |-> NoOperation]
  ELSE [status |-> "Ok",
        operation |-> [type |-> OperationName(address_type), models |-> models.model]]

\* The match of parse_operation.  The payload of a state change decodes as
\* the container its address names, or not at all (unpack_data panics).
parse_operation_as(address_type, state, block) ==
  IF address_type = "AnotherFamily"
  THEN [status |-> "EventParseError", operation |-> NoOperation]
  ELSE IF state.value.container # address_type
  THEN [status |-> "panic", operation |-> NoOperation]
  ELSE operation_of(address_type,
                    to_models(address_type, state.value.entries, block.block_num))

parse_operation(state, block) ==
  parse_operation_as(get_address_type(state.address), state, block)

ParseFailed(status) == [status |-> status, block |-> ZeroBlock, operations |-> <<>>]

\* the operations are pushed to the front of the list
collect_operations_reversed(block, ops) ==
  IF \E i \in 1..Len(ops) : ops[i].status # "Ok"
  THEN ParseFailed(ops[CHOOSE i \in 1..Len(ops) :
                         /\ ops[i].status # "Ok"
                         /\ \A j \in 1..(i - 1) : ops[j].status = "Ok"].status)
  ELSE [status |-> "Ok", block |-> block,
        operations |-> [i \in 1..Len(ops) |-> ops[Len(ops) + 1 - i].operation]]

\* The loop of parse_events: the first state change that fails ends it.
collect_operations(block, ops) ==
  IF \E i \in 1..Len(ops) : ops[i].status # "Ok"
  THEN ParseFailed(ops[CHOOSE i \in 1..Len(ops) :
                         /\ ops[i].status # "Ok"
                         /\ \A j \in 1..(i - 1) : ops[j].status = "Ok"].status)
  ELSE [status |-> "Ok", block |-> block,
        operations |-> [i \in 1..Len(ops) |-> ops[i].operation]]

parse_operations(block, sc) ==
  IF sc.status # "Ok" THEN ParseFailed(sc.status)
  ELSE collect_operations(block,
         MapSeq(sc.state_changes, LAMBDA change : parse_operation(change, block)))

parse_events_at(events, b) ==
  IF b.status # "Ok" THEN ParseFailed(b.status)
  ELSE parse_operations(b.block, parse_state_delta_events(events))

\* parse_events on the decoded event list
parse_events(events) ==
  IF events = <<>> THEN [status |-> "Ok", block |-> ZeroBlock, operations |-> <<>>]
  ELSE parse_events_at(events, parse_block(events))

StorageCall(operations, block) == [operations |-> operations, block |-> block]

\* the call is skipped whenever there is no operation, whatever the block
apply_parsed_skip_empty(p, db_ok) ==
  IF p.status # "Ok" THEN [status |-> p.status, calls |-> <<>>]
  ELSE IF p.operations = <<>>
  THEN [status |-> "Ok", calls |-> <<>>]
  ELSE [status |-> IF db_ok THEN "Ok" ELSE "DBError",
        calls |-> <<StorageCall(p.operations, p.block)>>]

\* one storage call per operation in place of one per frame
apply_parsed_per_operation(p, db_ok) ==
  IF p.status # "Ok" THEN [status |-> p.status, calls |-> <<>>]
  ELSE IF p.block.block_id = <<>> /\ p.operations = <<>>
  THEN [status |-> "Ok", calls |-> <<>>]
  ELSE [status |-> IF db_ok THEN "Ok" ELSE "DBError",
        calls |-> [i \in 1..Len(p.operations) |->
                     StorageCall(<<p.operations[i]>>, p.block)]]

\* handle_events after parse_events returned p: the heartbeat test and the
\* call of DataManager::execute_operations_in_block, whose outcome is db_ok.
apply_parsed(p, db_ok) ==
  IF p.status # "Ok" THEN [status |-> p.status, calls |-> <<>>]
  ELSE IF p.block.block_id = <<>> /\ p.operations = <<>>
  THEN [status |-> "Ok", calls |-> <<>>]
  ELSE [status |-> IF db_ok THEN "Ok" ELSE "DBError",
        calls |-> <<StorageCall(p.operations, p.block)>>]

\* handle_events: the status it returns (or "panic") and the calls it makes
\* to storage.  unpack_data panics on bytes that are no EventList.
handle_events(data, db_ok) ==
  IF unpack_data(data).panicked THEN [status |-> "panic", calls |-> <<>>]
  ELSE apply_parsed(parse_events(data.message), db_ok)

\* ---------------------------------------------------------------- inputs
Attr(k, v) == [key |-> k, value |-> v]
Bytes(m) == [decodes |-> TRUE, message |-> m]
Garbage == [decodes |-> FALSE, message |-> <<>>]

Event(type, attributes, data) ==
  [event_type |-> type, attributes |-> attributes, data |-> data]

OtherEvent == Event("sawtooth/settings", <<>>, Bytes(<<>>))

CommitEvent(attributes) == Event(BLOCK_COMMIT, attributes, Bytes(<<>>))

Commit42 == CommitEvent(<<Attr("block_num", <<"4", "2">>),
                          Attr("block_id", <<"B", "4", "2">>)>>)
Commit7 == CommitEvent(<<Attr("block_id", <<"B", "7">>),
                         Attr("previous_block_id", <<"B", "6">>),
                         Attr("block_num", <<"7">>)>>)
CommitBadNum == CommitEvent(<<Attr("block_num", <<"4", "x">>),
                              Attr("block_id", <<"B", "4", "2">>)>>)
CommitEmptyId == CommitEvent(<<Attr("block_num", <<"7">>), Attr("block_id", <<>>)>>)
Commit42EmptyId == CommitEvent(<<Attr("block_num", <<"4", "2">>), Attr("block_id", <<>>)>>)
CommitNoNum == CommitEvent(<<Attr("block_id", <<"B", "7">>)>>)
CommitNoId == CommitEvent(<<Attr("block_num", <<"7">>)>>)

CommitEvents ==
  {Commit42, Commit7, CommitBadNum, CommitEmptyId, CommitNoNum, CommitNoId}

\* domain messages
BigU64 == 2^(I64Bits - 1)

Accreditation1 == [standard_id |-> "std1", standard_version |-> "v1",
                   accreditor_id |-> "sb1", valid_from |-> 5, valid_to |-> 9]
Auth1 == [public_key |-> "pk", role |-> "ADMIN"]
Contact1 == [name |-> "n", phone_number |-> "555", language_code |-> "en"]
Address1 == [street_line_1 |-> "1 Main", street_line_2 |-> "", city |-> "c",
             state_province |-> "MN", country |-> "US", postal_code |-> ""]

Org(id, type, accreditations, address, auths, contacts) ==
  [id |-> id, name |-> id, organization_type |-> type,
   accreditations |-> accreditations, address |-> address,
   authorizations |-> auths, contacts |-> contacts]

CertBody == Org("cb", "CERTIFYING_BODY", <<Accreditation1>>, <<>>, <<Auth1>>, <<Contact1>>)
Factory == Org("f", "FACTORY", <<>>, <<Address1>>, <<Auth1>>, <<>>)
FactoryNoAddress == Org("f0", "FACTORY", <<>>, <<>>, <<>>, <<Contact1>>)

Agent(pk, org) == [public_key |-> pk, organization_id |-> org, name |-> "n",
                   timestamp |-> 5]
Certificate1 == [id |-> "c1", certifying_body_id |-> "cb", factory_id |-> "f",
                 standard_id |-> "std1", standard_version |-> "v1",
                 valid_from |-> 5, valid_to |-> BigU64]
Request1 == [id |-> "r1", factory_id |-> "f", standard_id |-> "std1",
             status |-> "IN_PROGRESS", request_date |-> 5]
Version(v) == [version |-> v, link |-> "l", description |-> "d", approval_date |-> 5]
Standard1 == [id |-> "std1", organization_id |-> "sb1", name |-> "s",
              versions |-> <<Version("v1"), Version("v2")>>]

Container(kind, entries) == [container |-> kind, entries |-> entries]
GarbageValue == Container("none", <<>>)

OrgAddress == NamespacePrefix \o <<"o", "1">>
AgentAddress == NamespacePrefix \o <<"a", "1">>
CertificateAddress == NamespacePrefix \o <<"c", "1">>
RequestAddress == NamespacePrefix \o <<"r", "1">>
StandardAddress == NamespacePrefix \o <<"s", "1">>
UnrecognizedAddress == NamespacePrefix \o <<"z", "1">>
ForeignAddress == <<"0", "0", "a", "1">>

StateChange(address, value) == [address |-> address, value |-> value]

AgentChange ==
  StateChange(AgentAddress, Container("Agent", <<Agent("pk", ""), Agent("pk2", "cb")>>))

Changes ==
  { StateChange(OrgAddress, Container("Organization", <<CertBody, Factory>>)),
    StateChange(OrgAddress, Container("Organization", <<FactoryNoAddress>>)),
    AgentChange,
    StateChange(AgentAddress, GarbageValue),
    StateChange(CertificateAddress, Container("Certificate", <<Certificate1>>)),
    StateChange(RequestAddress, Container("Request", <<Request1>>)),
    StateChange(StandardAddress, Container("Standard", <<Standard1>>)),
    StateChange(UnrecognizedAddress, Container("Agent", <<Agent("pk", "")>>)),
    StateChange(ForeignAddress, GarbageValue) }

DeltaEvent(changes) == Event(STATE_DELTA, <<>>, Bytes(changes))
GarbageDelta == Event(STATE_DELTA, <<>>, Garbage)

SeqsUpTo(S, n) == UNION {[1..k -> S] : k \in 0..n}

\* Frames that vary the events: any sequence of up to MaxEvents events, the
\* state-delta events among them carrying at most one state change.
SimpleEvents ==
  {OtherEvent, GarbageDelta} \cup CommitEvents
    \cup {DeltaEvent(<<c>>) : c \in {AgentChange,
            StateChange(UnrecognizedAddress, Container("Agent", <<Agent("pk", "")>>)),
            StateChange(ForeignAddress, GarbageValue)}}

EventFrames == {Bytes(es) : es \in SeqsUpTo(SimpleEvents, MaxEvents)}

\* Frames that vary the state changes: an optional commit event, then up to
\* MaxChanges state changes in one state-delta event or split over two.
SplitInTwo(cs) ==
  {<<DeltaEvent(SubSeq(cs, 1, k)), DeltaEvent(SubSeq(cs, k + 1, Len(cs)))>> :
     k \in 0..Len(cs)}

DeltaFrames ==
  { Bytes(pre \o ds) :
      pre \in {<<>>, <<Commit42>>, <<CommitEmptyId>>, <<Commit42EmptyId>>},
      ds \in {<<DeltaEvent(cs)>> : cs \in SeqsUpTo(Changes, MaxChanges)}
             \cup UNION {SplitInTwo(cs) : cs \in SeqsUpTo(Changes, MaxChanges)} }

Frames == {Garbage} \cup EventFrames \cup DeltaFrames

\* Frames that vary the domain messages: the commit event of block 42 and
\* one state change holding one container.
Accreditation2 == [standard_id |-> "std2", standard_version |-> "v2",
                   accreditor_id |-> "sb2", valid_from |-> 7, valid_to |-> BigU64]
Auth2 == [public_key |-> "pk2", role |-> "TRANSACTOR"]

Addresses ==
  {[street_line_1 |-> "1 Main", street_line_2 |-> line2, city |-> "c",
    state_province |-> state, country |-> "US", postal_code |-> code] :
     line2 \in {"", "Apt 2"}, state \in {"", "MN"}, code \in {"", "55401"}}

OrganizationTypes == {"CERTIFYING_BODY", "STANDARDS_BODY", "FACTORY", "UNSET_TYPE"}

Organizations ==
  {Org("o1", type, accreditations, address, auths, contacts) :
     type \in OrganizationTypes,
     accreditations \in SeqsUpTo({Accreditation1, Accreditation2}, MaxEntries),
     address \in {None} \cup {Some(a) : a \in Addresses},
     auths \in SeqsUpTo({Auth1, Auth2}, MaxEntries),
     contacts \in SeqsUpTo({Contact1}, MaxEntries)}

Agents == {Agent(pk, org) : pk \in {"pk", "pk2"}, org \in {"", "cb"}}

Timestamps == {0, 5, BigU64 - 1, BigU64, 2^I64Bits - 1}

Certificates ==
  {[Certificate1 EXCEPT !.valid_from = from, !.valid_to = to] :
     from \in Timestamps, to \in Timestamps}

Standards(id) ==
  {[Standard1 EXCEPT !.id = id, !.versions = versions] :
     versions \in SeqsUpTo({Version("v1"), Version("v2")}, MaxEntries)}

Containers ==
  {Container("Organization", <<o>>) : o \in Organizations}
    \cup {Container("Agent", as) : as \in SeqsUpTo(Agents, MaxEntries)}
    \cup {Container("Certificate", <<c>>) : c \in Certificates}
    \cup {Container("Request", <<Request1>>)}
    \cup {Container("Standard", <<s>>) : s \in Standards("std1")}
    \cup {Container("Standard", <<s, t>>) :
            s \in Standards("std1"), t \in Standards("std2")}

AddressOfKind(kind) ==
  CASE kind = "Organization" -> OrgAddress
    [] kind = "Agent" -> AgentAddress
    [] kind = "Certificate" -> CertificateAddress
    [] kind = "Request" -> RequestAddress
    [] kind = "Standard" -> StandardAddress

TransformFrames ==
  {Bytes(<<Commit42, DeltaEvent(<<StateChange(AddressOfKind(c.container), c)>>)>>) :
     c \in Containers}

\* Frames the validator delivers while the subscriber runs
LoopEvents == {Commit42, CommitNoId, DeltaEvent(<<AgentChange>>),
               DeltaEvent(<<StateChange(UnrecognizedAddress, GarbageValue)>>)}
LoopFrames == {Garbage} \cup {Bytes(es) : es \in SeqsUpTo(LoopEvents, 2)}

BlockId(i) == <<"b", i>>
KnownLists == {[i \in 1..n |-> BlockId(i)] : n \in 0..MaxKnown}

\* ----------------------------------------------------------------- state
VARIABLES
  pc,               \* where the worker is in start/stop
  known_block_ids,  \* start's argument
  start_index,      \* start's argument, per recursive call
  active,           \* Subscriber::active, shared with the Ctrl-C handler
  cancelled,        \* the Ctrl-C handler has run
  requests,         \* every sender.send call, in order
  subscribed,       \* a subscribe response OK was matched
  sender_closed,    \* sender.close() was called
  ret,              \* what start returned
  delivered,        \* frames taken from the receiver so far
  received,         \* the frame of the current loop iteration (an Option)
  handled,          \* what handle_events returned for it
  calls,            \* the execute_operations_in_block calls made for it
  applied           \* the storage's log: the ordinal of the frame of each call

vars == <<pc, known_block_ids, start_index, active, cancelled, requests,
          subscribed, sender_closed, ret, delivered, received, handled,
          calls, applied>>

SubscribeRequests == SelectSeq(requests, LAMBDA r : r.type = "SUBSCRIBE")
UnsubscribeRequests == SelectSeq(requests, LAMBDA r : r.type = "UNSUBSCRIBE")

\* the sentinel is offered only past the end of the list, not at its end
get_last_known_block_ids_strict(known, index) ==
  IF index > Len(known) THEN <<NULL_BLOCK_ID>>
  ELSE IF index + KNOWN_COUNT >= Len(known)
       THEN SubSeq(known, index + 1, Len(known))
       ELSE SubSeq(known, index + 1, index + KNOWN_COUNT)

\* Subscriber::get_last_known_block_ids
get_last_known_block_ids(known, index) ==
  IF index >= Len(known) THEN <<NULL_BLOCK_ID>>
  ELSE IF index + KNOWN_COUNT >= Len(known)
       THEN SubSeq(known, index + 1, Len(known))
       ELSE SubSeq(known, index + 1, index + KNOWN_COUNT)

\* a request handed to the sender, with the reply its future resolved to
Request(type, ids, ok) ==
  [type |-> type, last_known_block_ids |-> ids, sent |-> ok, reply |-> "none"]

Replied(reqs, reply) == [reqs EXCEPT ![Len(reqs)].reply = reply]

Init ==
  /\ pc = "start"
  /\ known_block_ids \in KnownLists
  /\ start_index = 0
  /\ active = FALSE
  /\ cancelled = FALSE
  /\ requests = <<>>
  /\ subscribed = FALSE
  /\ sender_closed = FALSE
  /\ ret = "none"
  /\ delivered = 0
  /\ received = None
  /\ handled = "none"
  /\ calls = <<>>
  /\ applied = <<>>

Return(r) == pc' = "returned" /\ ret' = r

\* start, lines 62-74: build the request and send it
SendSubscribe(ok) ==
  /\ pc = "start"
  /\ Len(SubscribeRequests) < MaxSubscribes
  /\ requests' = Append(requests,
       Request("SUBSCRIBE", get_last_known_block_ids(known_block_ids, start_index), ok))
  /\ IF ok THEN pc' = "subscribing" /\ ret' = ret ELSE Return("ConnError")
  /\ UNCHANGED <<known_block_ids, start_index, active, cancelled, subscribed,
                 sender_closed, delivered, received, handled, calls, applied>>

\* start, lines 75-104: the response future resolves
\*   reply = "FUTURE_ERROR": response_future.get() fails
\*   reply = "UNDECODABLE": parse_from_bytes(..).expect(..) panics
\*   otherwise the status of the decoded response
SubscribeReplies == {"OK", "UNKNOWN_BLOCK", "INVALID_FILTER", "FUTURE_ERROR", "UNDECODABLE"}

\* any failure of the subscribe exchange starts over with the next window
subscribe_outcome_retry_on_error(reply) ==
  CASE reply = "OK" -> "loop"
    [] reply = "UNDECODABLE" -> "panic"
    [] OTHER -> "retry"

\* the receive loop is entered on UNKNOWN_BLOCK as on OK
subscribe_outcome_loop_on_unknown(reply) ==
  CASE reply \in {"OK", "UNKNOWN_BLOCK"} -> "loop"
    [] reply = "UNDECODABLE" -> "panic"
    [] OTHER -> "ConnError"

\* the next window starts on the last id of the one before
next_start_index_overlapping(index) == index + KNOWN_COUNT - 1

\* the index stays where it is
same_start_index(index) == index

\* the window moves by one id
next_start_index_by_one(index) == index + 1

\* start, lines 75-104: where the reply takes the call
subscribe_outcome(reply) ==
  CASE reply = "OK" -> "loop"
    [] reply = "UNKNOWN_BLOCK" -> "retry"
    [] reply = "UNDECODABLE" -> "panic"
    [] OTHER -> "ConnError"

\* start, line 98: the start index of the recursive call
next_start_index(index) == index + KNOWN_COUNT

SubscribeResponse(reply) ==
  /\ pc = "subscribing"
  /\ requests' = Replied(requests, reply)
  /\ CASE subscribe_outcome(reply) = "loop" ->
            /\ active' = TRUE
            /\ subscribed' = TRUE
            /\ pc' = "loop"
            /\ UNCHANGED <<start_index, ret>>
       [] subscribe_outcome(reply) = "retry" ->
            /\ start_index' = next_start_index(start_index)
            /\ pc' = "start"
            /\ UNCHANGED <<active, subscribed, ret>>
       [] subscribe_outcome(reply) = "panic" ->
            /\ pc' = "panicked"
            /\ UNCHANGED <<start_index, active, subscribed, ret>>
       [] OTHER ->
            /\ Return("ConnError")
            /\ UNCHANGED <<start_index, active, subscribed>>
  /\ UNCHANGED <<known_block_ids, cancelled, sender_closed, delivered,
                 received, handled, calls, applied>>

\* the loop does not look at the flag
loop_condition_ignore_flag(flag) == "receiving"

\* start, line 86: while self.active.load(..)
loop_condition(flag) == IF flag THEN "receiving" ELSE "stopping"

\* start, line 86: the loop condition; the locals of the last iteration are gone
LoopCheck ==
  /\ pc = "loop"
  /\ pc' = loop_condition(active)
  /\ received' = None
  /\ handled' = "none"
  /\ calls' = <<>>
  /\ UNCHANGED <<known_block_ids, start_index, active, cancelled, requests,
                 subscribed, sender_closed, ret, delivered, applied>>

\* start, lines 87-88: recv_timeout returned Err (timeout): back to the condition
RecvTimeout ==
  /\ pc = "receiving"
  /\ pc' = "loop"
  /\ UNCHANGED <<known_block_ids, start_index, active, cancelled, requests,
                 subscribed, sender_closed, ret, delivered, received, handled,
                 calls, applied>>

\* start, line 89: recv_timeout returned Ok(Err(_)): expect panics
RecvError ==
  /\ pc = "receiving"
  /\ pc' = "panicked"
  /\ UNCHANGED <<known_block_ids, start_index, active, cancelled, requests,
                 subscribed, sender_closed, ret, delivered, received, handled,
                 calls, applied>>

\* the loop goes on after an error of handle_events
after_handle_continue(status) ==
  CASE status = "panic" -> "panicked"
    [] OTHER -> "loop"

\* start, line 90: the `?` on what handle_events returned
after_handle(status) ==
  CASE status = "Ok" -> "loop"
    [] status = "panic" -> "panicked"
    [] OTHER -> "returned"

\* the calls of a frame reach storage ahead of those of the frames before
record_calls_in_front(log, n, frame) == [i \in 1..n |-> frame] \o log

\* handle_events, lines 34-35: storage gets the n calls of the frame being
\* handled, after all it got before
record_calls(log, n, frame) == log \o [i \in 1..n |-> frame]

\* start, lines 89-90: a frame was received and handle_events returned h
Handled(data, h) ==
  /\ pc = "receiving"
  /\ delivered < MaxFrames
  /\ delivered' = delivered + 1
  /\ received' = Some(data)
  /\ handled' = h.status
  /\ calls' = h.calls
  /\ applied' = record_calls(applied, Len(h.calls), delivered + 1)
  /\ pc' = after_handle(h.status)
  /\ ret' = IF after_handle(h.status) = "returned" THEN h.status ELSE ret
  /\ UNCHANGED <<known_block_ids, start_index, active, cancelled, requests,
                 subscribed, sender_closed>>

HandleFrame(data, db_ok) == Handled(data, handle_events(data, db_ok))

\* one iteration of the loop body on any frame of `frames`
ReceiveFrame(frames) ==
  /\ pc = "receiving"
  /\ \E data \in frames, db_ok \in BOOLEAN : HandleFrame(data, db_ok)

\* stop, lines 121-132: send the unsubscribe request
SendUnsubscribe(ok) ==
  /\ pc = "stopping"
  /\ requests' = Append(requests, Request("UNSUBSCRIBE", <<>>, ok))
  /\ IF ok THEN pc' = "unsubscribing" /\ ret' = ret ELSE Return("ConnError")
  /\ UNCHANGED <<known_block_ids, start_index, active, cancelled, subscribed,
                 sender_closed, delivered, received, handled, calls, applied>>

\* stop, lines 133-149, and start, lines 93-94
UnsubscribeReplies == {"OK", "INTERNAL_ERROR", "FUTURE_ERROR", "UNDECODABLE"}

\* whatever the validator answers, the unsubscribe counts as done
unsubscribe_outcome_lenient(reply) ==
  CASE reply = "UNDECODABLE" -> "panic"
    [] OTHER -> "Ok"

\* a response that decodes counts as OK whatever its status
unsubscribe_outcome_ok_on_status(reply) ==
  CASE reply \in {"OK", "INTERNAL_ERROR"} -> "Ok"
    [] reply = "UNDECODABLE" -> "panic"
    [] OTHER -> "ConnError"

\* stop, lines 133-149: what the reply makes stop return
unsubscribe_outcome(reply) ==
  CASE reply = "OK" -> "Ok"
    [] reply = "UNDECODABLE" -> "panic"
    [] OTHER -> "ConnError"

UnsubscribeResponse(reply) ==
  /\ pc = "unsubscribing"
  /\ requests' = Replied(requests, reply)
  /\ CASE unsubscribe_outcome(reply) = "Ok" -> sender_closed' = TRUE /\ Return("Ok")
       [] unsubscribe_outcome(reply) = "panic" ->
            pc' = "panicked" /\ UNCHANGED <<sender_closed, ret>>
       [] OTHER -> Return("ConnError") /\ UNCHANGED sender_closed
  /\ UNCHANGED <<known_block_ids, start_index, active, cancelled,
                 subscribed, delivered, received, handled, calls, applied>>

\* main, lines 78-80: the Ctrl-C handler, on its own thread
Interrupt ==
  /\ pc \notin {"returned", "panicked"}
  /\ active' = FALSE
  /\ cancelled' = TRUE
  /\ UNCHANGED <<pc, known_block_ids, start_index, requests, subscribed,
                 sender_closed, ret, delivered, received, handled, calls, applied>>

Next ==
  \/ \E ok \in BOOLEAN : SendSubscribe(ok)
  \/ \E reply \in SubscribeReplies : SubscribeResponse(reply)
  \/ LoopCheck
  \/ RecvTimeout
  \/ RecvError
  \/ ReceiveFrame(LoopFrames)
  \/ \E ok \in BOOLEAN : SendUnsubscribe(ok)
  \/ \E reply \in UnsubscribeReplies : UnsubscribeResponse(reply)
  \/ Interrupt

Spec == Init /\ [][Next]_vars

\* The thread that runs start: it takes its next step whenever it has one
\* (recv_timeout returns within its second, the validator answers).  The
\* Ctrl-C handler runs only if the signal comes.
Worker ==
  \/ \E ok \in BOOLEAN : SendSubscribe(ok)
  \/ \E reply \in SubscribeReplies : SubscribeResponse(reply)
  \/ LoopCheck
  \/ RecvTimeout
  \/ RecvError
  \/ ReceiveFrame(LoopFrames)
  \/ \E ok \in BOOLEAN : SendUnsubscribe(ok)
  \/ \E reply \in UnsubscribeReplies : UnsubscribeResponse(reply)

SpecLive == Init /\ [][Next]_vars /\ WF_vars(Worker)

\* get_last_known_block_ids as a function of its input: start is called with
\* any list and any start index, and builds and sends its request.
StartIndexes == 0..(MaxKnown + KNOWN_COUNT)

InitWindow ==
  /\ pc = "start"
  /\ known_block_ids \in KnownLists
  /\ start_index \in StartIndexes
  /\ active = FALSE
  /\ cancelled = FALSE
  /\ requests = <<>>
  /\ subscribed = FALSE
  /\ sender_closed = FALSE
  /\ ret = "none"
  /\ delivered = 0
  /\ received = None
  /\ handled = "none"
  /\ calls = <<>>
  /\ applied = <<>>

NextWindow == \E ok \in BOOLEAN : SendSubscribe(ok)

SpecWindow == InitWindow /\ [][NextWindow]_vars

\* handle_events as a function of its input: the worker is in the receive
\* loop of a run started with no known block, and any frame arrives.
InitHandler ==
  /\ pc = "receiving"
  /\ known_block_ids = <<>>
  /\ start_index = 0
  /\ active = TRUE
  /\ cancelled = FALSE
  /\ requests = Replied(<<Request("SUBSCRIBE", <<NULL_BLOCK_ID>>, TRUE)>>, "OK")
  /\ subscribed = TRUE
  /\ sender_closed = FALSE
  /\ ret = "none"
  /\ delivered = 0
  /\ received = None
  /\ handled = "none"
  /\ calls = <<>>
  /\ applied = <<>>

NextHandler == ReceiveFrame(Frames)

SpecHandler == InitHandler /\ [][NextHandler]_vars

\* the at_block transforms as functions of their input: the frame that
\* arrives commits block 42 and changes one container of domain messages.
NextTransform == ReceiveFrame(TransformFrames)

SpecTransform == InitHandler /\ [][NextTransform]_vars

\* ------------------------------------------------------------------------
\* Claims.  ReceivedFrame is the frame handle_events was last called on.
\* ------------------------------------------------------------------------
HasFrame == received # None /\ received[1].decodes
EventsOfFrame == received[1].message
CommitsOfFrame == SelectSeq(EventsOfFrame, LAMBDA e : e.event_type = BLOCK_COMMIT)
DeltasOfFrame == SelectSeq(EventsOfFrame, LAMBDA e : e.event_type = STATE_DELTA)
AttrValues(e, key) == SelectSeq(e.attributes, LAMBDA a : a.key = key)
WellFormedCommit(e) == AttrValues(e, "block_num") # <<>> /\ AttrValues(e, "block_id") # <<>>
BadBlockNum(e) ==
  AttrValues(e, "block_num") # <<>> /\ ~parse_i64(AttrValues(e, "block_num")[1].value).ok

\* the state changes of the frame, in order, as the validator put them
ChangesOfFrame ==
  FlattenSeq([i \in 1..Len(DeltasOfFrame) |->
                IF DeltasOfFrame[i].data.decodes THEN DeltasOfFrame[i].data.message
                ELSE <<>>])
InNamespace(c) == IsPrefixOf(NamespacePrefix, c.address)
Count(s, P(_)) == Cardinality({i \in 1..Len(s) : P(s[i])})

\* C1: once a subscribe response OK was received, start does not return
\* before an unsubscribe request was handed to the sender.
C1_UnsubscribeBeforeReturn ==
  (pc = "returned" /\ subscribed) => UnsubscribeRequests # <<>>

\* C2: handle_events calls execute_operations_in_block at most once per
\* frame, with one operation for every surviving state change of the frame,
\* and not at all when it ends in a parse error (or a panic).
C2_OneStorageCallPerFrame ==
  received # None =>
    /\ Len(calls) <= 1
    /\ (handled \notin {"Ok", "DBError"} => calls = <<>>)
    /\ (calls # <<>> =>
          /\ HasFrame
          /\ Len(calls[1].operations) = Count(ChangesOfFrame, InNamespace))

C2_Witness ==
  /\ HasFrame
  /\ Len(calls) = 1
  /\ Len(calls[1].operations) = 2
  /\ handled = "DBError"

\* C3: every record of every operation handed to storage starts at the
\* block of that call and ends at MAX_BLOCK_NUM.
Stamped(r, block) ==
  r.start_block_num = block.block_num /\ r.end_block_num = MAX_BLOCK_NUM

AllStamped(rs, block) == \A i \in 1..Len(rs) : Stamped(rs[i], block)

ModelStamped(type, m, block) ==
  CASE type = "CreateOrganization" ->
         /\ Stamped(m.organization, block)
         /\ \A i \in 1..Len(m.accreditations) : AllStamped(m.accreditations[i], block)
         /\ AllStamped(m.address, block)
         /\ AllStamped(m.authorizations, block)
         /\ AllStamped(m.contacts, block)
    [] type = "CreateStandard" ->
         Stamped(m.standard, block) /\ AllStamped(m.versions, block)
    [] OTHER -> Stamped(m, block)

C3_RecordsStamped ==
  \A c \in 1..Len(calls) :
    \A o \in 1..Len(calls[c].operations) :
      \A m \in 1..Len(calls[c].operations[o].models) :
        ModelStamped(calls[c].operations[o].type,
                     calls[c].operations[o].models[m], calls[c].block)

C3_Witness ==
  /\ Len(calls) = 1
  /\ calls[1].block.block_num = 42
  /\ Len(calls[1].operations) = 2
  /\ calls[1].operations[1].type = "CreateOrganization"
  /\ Len(calls[1].operations[1].models) = 2
  /\ calls[1].operations[1].models[1].accreditations # None
  /\ calls[1].operations[1].models[2].address # None
  /\ calls[1].operations[2].type = "CreateStandard"
  /\ Len(calls[1].operations[2].models[1].versions) = 2

\* C4: a frame without block-commit and without state-delta events is
\* handled with success and no storage call.
C4_NoStateEventsIsNoOp ==
  (HasFrame /\ CommitsOfFrame = <<>> /\ DeltasOfFrame = <<>>) =>
    (handled = "Ok" /\ calls = <<>>)

\* C5: with two or more block-commit events the Block handed to storage is
\* that of the last one.
LastCommit == CommitsOfFrame[Len(CommitsOfFrame)]

C5_LastCommitWins ==
  (HasFrame /\ Len(CommitsOfFrame) >= 2 /\ calls # <<>>) =>
    /\ WellFormedCommit(LastCommit)
    /\ parse_i64(AttrValues(LastCommit, "block_num")[1].value).ok
    /\ calls[1].block.block_num =
         parse_i64(AttrValues(LastCommit, "block_num")[1].value).val
    /\ calls[1].block.block_id = AttrValues(LastCommit, "block_id")[1].value

C5_Witness ==
  /\ HasFrame
  /\ Len(CommitsOfFrame) >= 2
  /\ CommitsOfFrame[1] = Commit42
  /\ LastCommit = Commit7
  /\ calls # <<>>
  /\ calls[1].block = Block(7, <<"B", "7">>)

\* C6: a frame with a block-commit event whose block_num is no base-10
\* integer ends in EventParseError without a storage call, wherever that
\* event stands.  Stated for frames whose commit events all carry both
\* attributes, so that a violation is not the missing-attribute panic.
C6_BadBlockNumIsParseError ==
  (/\ HasFrame
   /\ \E i \in 1..Len(CommitsOfFrame) : BadBlockNum(CommitsOfFrame[i])
   /\ \A i \in 1..Len(CommitsOfFrame) : WellFormedCommit(CommitsOfFrame[i])) =>
    (handled = "EventParseError" /\ calls = <<>>)

\* C7: a frame with a block-commit event that lacks block_num or block_id
\* ends in EventParseError (and not in a crash).
C7_MissingAttributeIsParseError ==
  (/\ HasFrame
   /\ \E i \in 1..Len(CommitsOfFrame) : ~WellFormedCommit(CommitsOfFrame[i])) =>
    handled = "EventParseError"

\* C8: a frame with a state-delta event and no block-commit event ends in
\* EventParseError without a storage call, whatever its state changes are.
C8_DeltaWithoutCommit ==
  (HasFrame /\ DeltasOfFrame # <<>> /\ CommitsOfFrame = <<>>) =>
    (handled = "EventParseError" /\ calls = <<>>)

C8_Witness ==
  /\ HasFrame
  /\ CommitsOfFrame = <<>>
  /\ Len(ChangesOfFrame) = 2
  /\ InNamespace(ChangesOfFrame[1])
  /\ ~InNamespace(ChangesOfFrame[2])
  /\ handled = "EventParseError"

\* C9: state changes outside the namespace do not count: the frame is
\* handled exactly as the same frame without them, and they add no operation.
StripEvent(e) ==
  IF e.event_type = STATE_DELTA /\ e.data.decodes
  THEN Event(e.event_type, e.attributes, Bytes(SelectSeq(e.data.message, InNamespace)))
  ELSE e

StripFrame(frame) == Bytes(MapSeq(frame.message, StripEvent))

C9_ForeignChangesDropped ==
  HasFrame =>
    /\ handled = handle_events(StripFrame(received[1]), handled # "DBError").status
    /\ calls = handle_events(StripFrame(received[1]), handled # "DBError").calls
    /\ \A c \in 1..Len(calls) :
         Len(calls[c].operations) = Count(ChangesOfFrame, InNamespace)

C9_Witness ==
  /\ HasFrame
  /\ Len(ChangesOfFrame) = 2
  /\ ChangesOfFrame[1] = StateChange(ForeignAddress, GarbageValue)
  /\ InNamespace(ChangesOfFrame[2])
  /\ handled = "Ok"
  /\ Len(calls) = 1
  /\ Len(calls[1].operations) = 1

\* C10: a frame with a state change inside the namespace whose address is
\* of no known kind ends in EventParseError without a storage call.  Stated
\* for frames whose protobuf payloads all decode.
Unrecognized(c) == InNamespace(c) /\ get_address_type(c.address) = "AnotherFamily"

PayloadsDecode ==
  /\ \A i \in 1..Len(DeltasOfFrame) : DeltasOfFrame[i].data.decodes
  /\ \A i \in 1..Len(ChangesOfFrame) :
       InNamespace(ChangesOfFrame[i]) /\ ~Unrecognized(ChangesOfFrame[i]) =>
         ChangesOfFrame[i].value.container = get_address_type(ChangesOfFrame[i].address)

C10_UnrecognizedIsParseError ==
  (/\ HasFrame
   /\ PayloadsDecode
   /\ \E i \in 1..Len(ChangesOfFrame) : Unrecognized(ChangesOfFrame[i])) =>
    (handled = "EventParseError" /\ calls = <<>>)

\* C11: the operations handed to storage are, one for one and in order, the
\* operations of the state changes of the frame that lie in the namespace,
\* taken event by event and, within an event, in their embedded order.
SurvivingChanges == SelectSeq(ChangesOfFrame, InNamespace)

C11_OperationsInOrder ==
  \A c \in 1..Len(calls) :
    /\ HasFrame
    /\ Len(calls[c].operations) = Len(SurvivingChanges)
    /\ \A k \in 1..Len(SurvivingChanges) :
         calls[c].operations[k] =
           parse_operation(SurvivingChanges[k], calls[c].block).operation

C11_Witness ==
  /\ HasFrame
  /\ Len(DeltasOfFrame) = 2
  /\ Len(DeltasOfFrame[1].data.message) = 1
  /\ Len(SurvivingChanges) = 2
  /\ SurvivingChanges[1].address = StandardAddress
  /\ SurvivingChanges[2].address = AgentAddress
  /\ Len(calls) = 1
  /\ calls[1].operations[1].type = "CreateStandard"
  /\ calls[1].operations[2].type = "CreateAgent"

\* C12: the ids of a subscribe request are the genesis sentinel alone when
\* the start index is at or past the end of the known list, and otherwise
\* the ids from the start index on, ten at most, in the order of the list.
Min(a, b) == IF a <= b THEN a ELSE b

Window(known, index) ==
  IF index >= Len(known) THEN <<NULL_BLOCK_ID>>
  ELSE [k \in 1..(Min(index + 10, Len(known)) - index) |-> known[index + k]]

C12_WindowSelection ==
  requests # <<>> =>
    requests[Len(requests)].last_known_block_ids = Window(known_block_ids, start_index)

C12_Witness ==
  /\ Len(known_block_ids) = 15
  /\ start_index = 10
  /\ requests # <<>>
  /\ requests[1].last_known_block_ids =
       <<BlockId(11), BlockId(12), BlockId(13), BlockId(14), BlockId(15)>>

\* C13: every UNKNOWN_BLOCK reply is followed by exactly one more subscribe
\* request, and the k-th request of a run offers the window of the same
\* known-id list that starts ten ids after the window of the one before.
LastSubscribe == SubscribeRequests[Len(SubscribeRequests)]

UnknownBlockReplies ==
  Cardinality({k \in 1..Len(SubscribeRequests) :
                 SubscribeRequests[k].reply = "UNKNOWN_BLOCK"})

C13_RetryWithNextWindow ==
  /\ Len(SubscribeRequests) = UnknownBlockReplies + (IF pc = "start" THEN 0 ELSE 1)
  /\ \A k \in 1..Len(SubscribeRequests) :
       SubscribeRequests[k].last_known_block_ids =
         Window(known_block_ids, 10 * (k - 1))
  /\ (pc = "start" => start_index = 10 * Len(SubscribeRequests))

C13_Witness ==
  /\ Len(known_block_ids) = 15
  /\ Len(SubscribeRequests) = 2
  /\ SubscribeRequests[1].reply = "UNKNOWN_BLOCK"
  /\ SubscribeRequests[1].last_known_block_ids = SubSeq(known_block_ids, 1, 10)
  /\ SubscribeRequests[2].last_known_block_ids = SubSeq(known_block_ids, 11, 15)
  /\ start_index = 10

\* C14: as long as no request offering the genesis sentinel was answered
\* UNKNOWN_BLOCK, a run over n known ids has sent at most ceil(n/10) + 1
\* subscribe requests.
CeilDiv(n, d) == (n + d - 1) \div d

SentinelRejected ==
  \E k \in 1..Len(SubscribeRequests) :
    /\ SubscribeRequests[k].last_known_block_ids = <<NULL_BLOCK_ID>>
    /\ SubscribeRequests[k].reply = "UNKNOWN_BLOCK"

C14_SubscribingBounded ==
  ~SentinelRejected =>
    Len(SubscribeRequests) <= CeilDiv(Len(known_block_ids), 10) + 1

C14_Witness ==
  /\ Len(known_block_ids) = 15
  /\ Len(SubscribeRequests) = 3
  /\ LastSubscribe.last_known_block_ids = <<NULL_BLOCK_ID>>
  /\ LastSubscribe.reply = "OK"
  /\ pc = "loop"

\* C15: the genesis sentinel is offered at most once in a run: after a
\* request offering it was answered UNKNOWN_BLOCK no subscribe request follows.
C15_SentinelOfferedOnce ==
  Cardinality({k \in 1..Len(SubscribeRequests) :
                 SubscribeRequests[k].last_known_block_ids = <<NULL_BLOCK_ID>>}) <= 1

\* C16: when the subscribe request cannot be sent, its future fails, or the
\* response has a status other than OK and UNKNOWN_BLOCK, start has returned
\* ConnError; that request is the last one, the flag was not raised, no
\* frame was received and no unsubscribe request was sent.
SubscribeFailed ==
  /\ SubscribeRequests # <<>>
  /\ \/ ~LastSubscribe.sent
     \/ LastSubscribe.reply \in {"INVALID_FILTER", "FUTURE_ERROR"}

C16_SubscribeFailureIsFatal ==
  SubscribeFailed =>
    /\ pc = "returned"
    /\ ret = "ConnError"
    /\ ~active
    /\ ~subscribed
    /\ delivered = 0
    /\ received = None
    /\ applied = <<>>
    /\ UnsubscribeRequests = <<>>

C16_Witness ==
  /\ Len(SubscribeRequests) = 2
  /\ SubscribeRequests[1].reply = "UNKNOWN_BLOCK"
  /\ LastSubscribe.reply = "INVALID_FILTER"
  /\ ret = "ConnError"

\* C17: a subscribe response that does not decode makes start return
\* ConnError.
C17_UndecodableIsConnError ==
  (SubscribeRequests # <<>> /\ LastSubscribe.reply = "UNDECODABLE") =>
    (pc = "returned" /\ ret = "ConnError")

\* C18: when handle_events returned an error for a frame, start has
\* returned that error; the frame was the last one received and storage
\* was called for it once at most.
C18_HandleErrorAborts ==
  handled \in {"EventParseError", "DBError"} =>
    /\ pc = "returned"
    /\ ret = handled
    /\ received # None
    /\ Cardinality({i \in 1..Len(applied) : applied[i] = delivered}) <= 1
    /\ \A i \in 1..Len(applied) : applied[i] <= delivered

C18_Witness ==
  /\ handled = "DBError"
  /\ ret = "DBError"
  /\ delivered = 2
  /\ applied = <<1, 2>>

\* C19: once the flag was cleared while the subscriber is in its receive
\* loop, and unless a poll or handle_events panics, the subscriber comes to
\* send the unsubscribe request.
CancelledInLoop == ~active /\ pc \in {"loop", "receiving"}

C19_CancellationLeadsToUnsubscribe ==
  CancelledInLoop ~> (UnsubscribeRequests # <<>> \/ pc = "panicked")

\* C20: start has returned Ok only if the subscribe response was OK, the
\* loop saw the flag down, one unsubscribe request was sent after that and
\* answered OK, and the sender was closed.
C20_OkOnlyAfterUnsubscribe ==
  /\ (pc \in {"stopping", "unsubscribing"} => (subscribed /\ ~active))
  /\ (ret = "Ok" =>
        /\ pc = "returned"
        /\ subscribed
        /\ ~active
        /\ Len(UnsubscribeRequests) = 1
        /\ requests[Len(requests)].type = "UNSUBSCRIBE"
        /\ requests[Len(requests)].sent
        /\ requests[Len(requests)].reply = "OK"
        /\ requests[Len(requests) - 1].type = "SUBSCRIBE"
        /\ requests[Len(requests) - 1].reply = "OK"
        /\ sender_closed)

C20_Witness ==
  /\ ret = "Ok"
  /\ cancelled
  /\ delivered = 1
  /\ sender_closed

\* C21: when the unsubscribe request cannot be sent, its future fails, or
\* the response has a status other than OK, start has returned ConnError and
\* the sender was not closed; the sender is closed only after an unsubscribe
\* response OK.
LastUnsubscribe == UnsubscribeRequests[Len(UnsubscribeRequests)]

UnsubscribeFailed ==
  /\ UnsubscribeRequests # <<>>
  /\ \/ ~LastUnsubscribe.sent
     \/ LastUnsubscribe.reply \in {"INTERNAL_ERROR", "FUTURE_ERROR"}

C21_UnsubscribeFailureIsConnError ==
  /\ UnsubscribeFailed =>
       (pc = "returned" /\ ret = "ConnError" /\ ~sender_closed)
  /\ sender_closed =>
       (UnsubscribeRequests # <<>> /\ LastUnsubscribe.sent /\ LastUnsubscribe.reply = "OK")

C21_Witness ==
  /\ UnsubscribeRequests # <<>>
  /\ LastUnsubscribe.reply = "INTERNAL_ERROR"
  /\ ret = "ConnError"
  /\ ~sender_closed
  /\ delivered = 1

\* The frame changes one container of the given kind at block 42, and
\* handle_events passed it to storage.
Transformed(kind) ==
  /\ HasFrame
  /\ CommitsOfFrame = <<Commit42>>
  /\ Len(ChangesOfFrame) = 1
  /\ ChangesOfFrame[1].address = AddressOfKind(kind)
  /\ ChangesOfFrame[1].value.container = kind

Entries == ChangesOfFrame[1].value.entries

StoredOnce ==
  /\ handled \in {"Ok", "DBError"}
  /\ Len(calls) = 1
  /\ calls[1].block = Block(42, <<"B", "4", "2">>)
  /\ Len(calls[1].operations) = 1

Models == calls[1].operations[1].models

\* C22: an organization of type CertifyingBody gets Some(list) with one
\* accreditation record per accreditation entry, in order, and no address;
\* one of type Factory gets Some(address) when it has one and no
\* accreditation list; any other type gets neither; every organization
\* gets one authorization and one contact record per entry.
FactoryWithoutAddress(org) == org.organization_type = "FACTORY" /\ org.address = None

OrgRecords(org, m) ==
  /\ m.organization.organization_id = org.id
  /\ IF org.organization_type = "CERTIFYING_BODY"
     THEN /\ Len(m.accreditations) = 1
          /\ Len(m.accreditations[1]) = Len(org.accreditations)
          /\ \A j \in 1..Len(org.accreditations) :
               /\ m.accreditations[1][j].standard_id = org.accreditations[j].standard_id
               /\ m.accreditations[1][j].accreditor_id = org.accreditations[j].accreditor_id
               /\ m.accreditations[1][j].organization_id = org.id
     ELSE m.accreditations = None
  /\ IF org.organization_type = "FACTORY"
     THEN org.address # None =>
            /\ Len(m.address) = 1
            /\ m.address[1].street_line_1 = org.address[1].street_line_1
            /\ m.address[1].organization_id = org.id
     ELSE m.address = None
  /\ Len(m.authorizations) = Len(org.authorizations)
  /\ \A j \in 1..Len(org.authorizations) :
       m.authorizations[j].public_key = org.authorizations[j].public_key
  /\ Len(m.contacts) = Len(org.contacts)
  /\ \A j \in 1..Len(org.contacts) : m.contacts[j].name = org.contacts[j].name

C22_OrganizationTransform ==
  (/\ Transformed("Organization")
   /\ \A i \in 1..Len(Entries) : ~FactoryWithoutAddress(Entries[i])) =>
    /\ StoredOnce
    /\ calls[1].operations[1].type = "CreateOrganization"
    /\ Len(Models) = Len(Entries)
    /\ \A i \in 1..Len(Entries) : OrgRecords(Entries[i], Models[i])

C22_Witness ==
  /\ Transformed("Organization")
  /\ Entries[1].organization_type = "CERTIFYING_BODY"
  /\ Entries[1].accreditations = <<Accreditation2, Accreditation1>>
  /\ Entries[1].address # None
  /\ Entries[1].contacts = <<>>
  /\ StoredOnce
  /\ Models[1].accreditations[1][1].standard_id = "std2"
  /\ Models[1].accreditations[1][2].standard_id = "std1"
  /\ Models[1].address = None
  /\ Models[1].contacts = <<>>

\* C23: a Factory organization whose factory details hold no address is
\* transformed all the same: the frame is handled and stored, the record of
\* the organization has no address.
C23_FactoryWithoutAddress ==
  (/\ Transformed("Organization")
   /\ \E i \in 1..Len(Entries) : FactoryWithoutAddress(Entries[i])) =>
    /\ StoredOnce
    /\ Len(Models) = Len(Entries)
    /\ \A i \in 1..Len(Entries) :
         FactoryWithoutAddress(Entries[i]) =>
           /\ Models[i].address = None
           /\ Len(Models[i].authorizations) = Len(Entries[i].authorizations)
           /\ Len(Models[i].contacts) = Len(Entries[i].contacts)

\* C24: the frame of block 42 ("B42") with one Agent state change yields
\* Block {42, "B42"} and one CreateAgent operation with one record per agent
\* of the container, organization_id None for the empty string and Some(id)
\* otherwise, from block 42 to MAX_BLOCK_NUM.  The optional lines of a
\* factory address follow the same rule.
Absent(text) == IF text = "" THEN None ELSE Some(text)

AgentRecord(agent, m) ==
  /\ m.public_key = agent.public_key
  /\ m.name = agent.name
  /\ m.organization_id = Absent(agent.organization_id)
  /\ m.start_block_num = 42
  /\ m.end_block_num = MAX_BLOCK_NUM

AddressRecord(address, m) ==
  /\ m.street_line_2 = Absent(address.street_line_2)
  /\ m.state_province = Absent(address.state_province)
  /\ m.postal_code = Absent(address.postal_code)

C24_AgentEndToEnd ==
  /\ Transformed("Agent") =>
       /\ StoredOnce
       /\ calls[1].operations[1].type = "CreateAgent"
       /\ Len(Models) = Len(Entries)
       /\ \A i \in 1..Len(Entries) : AgentRecord(Entries[i], Models[i])
  /\ (Transformed("Organization") /\ StoredOnce) =>
       \A i \in 1..Len(Entries) :
         Models[i].address # None =>
           AddressRecord(Entries[i].address[1], Models[i].address[1])

C24_Witness ==
  /\ Transformed("Agent")
  /\ Entries = <<Agent("pk", ""), Agent("pk2", "cb")>>
  /\ handled = "Ok"
  /\ StoredOnce
  /\ Models[1].organization_id = None
  /\ Models[2].organization_id = Some("cb")
  /\ Models[1].start_block_num = 42

\* C25: every standard of the container yields one standard record and one
\* version record per version entry, in order, each with the id of its
\* standard and the start block of the standard record.
StandardRecords(standard, m) ==
  /\ m.standard.standard_id = standard.id
  /\ Len(m.versions) = Len(standard.versions)
  /\ \A j \in 1..Len(standard.versions) :
       /\ m.versions[j].version = standard.versions[j].version
       /\ m.versions[j].standard_id = standard.id
       /\ m.versions[j].start_block_num = m.standard.start_block_num

C25_StandardTransform ==
  Transformed("Standard") =>
    /\ StoredOnce
    /\ calls[1].operations[1].type = "CreateStandard"
    /\ Len(Models) = Len(Entries)
    /\ \A i \in 1..Len(Entries) : StandardRecords(Entries[i], Models[i])

C25_Witness ==
  /\ Transformed("Standard")
  /\ Len(Entries) = 2
  /\ Entries[1].versions = <<Version("v2"), Version("v1")>>
  /\ Entries[2].versions = <<Version("v1")>>
  /\ StoredOnce
  /\ Models[1].versions[1].version = "v2"
  /\ Models[1].versions[2].version = "v1"
  /\ Models[2].versions[1].standard_id = "std2"

\* C26: the certificate record holds valid_from and valid_to with the
\* numeric value of the message, whatever that value is.
C26_TimestampsKeepValue ==
  Transformed("Certificate") =>
    /\ StoredOnce
    /\ Len(Models) = Len(Entries)
    /\ \A i \in 1..Len(Entries) :
         /\ Models[i].valid_from = Entries[i].valid_from
         /\ Models[i].valid_to = Entries[i].valid_to

\* C27: a frame is received and handled only in the receive loop: after a
\* subscribe response OK, not while a window is being retried, and not once
\* the unsubscribe request was sent.
C27_HandledOnlyWhileActive ==
  /\ pc = "receiving" =>
       /\ subscribed
       /\ SubscribeRequests # <<>>
       /\ LastSubscribe.reply = "OK"
       /\ UnsubscribeRequests = <<>>
  /\ ~subscribed => (delivered = 0 /\ received = None /\ applied = <<>>)
  /\ pc \in {"start", "subscribing"} => (delivered = 0 /\ ~subscribed)
  /\ UnsubscribeRequests # <<>> => pc \in {"unsubscribing", "returned", "panicked"}

C27_Witness ==
  /\ pc = "receiving"
  /\ Len(SubscribeRequests) = 2
  /\ SubscribeRequests[1].reply = "UNKNOWN_BLOCK"
  /\ delivered = 1
  /\ applied = <<1>>

\* C28: storage is called for the frames in the order of their delivery,
\* for one frame at a time: the log of calls never steps back to an
\* earlier frame nor ahead of the frame in hand.
C28_FramesOneAtATime ==
  /\ \A i \in 1..Len(applied) : applied[i] \in 1..delivered
  /\ \A i \in 1..Len(applied) : \A j \in 1..Len(applied) :
       i < j => applied[i] < applied[j]
  /\ calls # <<>> => (applied # <<>> /\ applied[Len(applied)] = delivered)

C28_Witness ==
  /\ delivered = 2
  /\ applied = <<1, 2>>
  /\ calls # <<>>
  /\ handled = "Ok"

\* C29: clearing the flag does not cut a frame short: whatever the flag is
\* when a frame arrives, the frame is handled as handle_events handles it;
\* once the loop condition has read the flag as false, no frame is received
\* or handled any more.
C29_Step ==
  /\ delivered' # delivered =>
       /\ pc = "receiving"
       /\ \E db_ok \in BOOLEAN :
            /\ handled' = handle_events(received'[1], db_ok).status
            /\ calls' = handle_events(received'[1], db_ok).calls
  /\ (pc = "loop" /\ ~active) =>
       (pc' \in {"loop", "stopping"} /\ delivered' = delivered)
  /\ pc \in {"stopping", "unsubscribing", "returned", "panicked"} =>
       /\ delivered' = delivered
       /\ applied' = applied
       /\ pc' \notin {"loop", "receiving"}

C29_CancellationNotPreemptive == [][C29_Step]_vars

C29_Witness ==
  /\ cancelled
  /\ ~active
  /\ pc = "stopping"
  /\ delivered = 1
  /\ applied = <<1>>

\* C30: a cancellation that came before the subscribe response is honoured
\* like any other: once subscribed, the subscriber comes to send the
\* unsubscribe request (or start ends with an error or a panic).
C30_EarlyCancellationHonoured ==
  (cancelled /\ subscribed) ~>
    (UnsubscribeRequests # <<>> \/ pc \in {"returned", "panicked"})

\* C31: when parse_events succeeded, handle_events leaves storage alone
\* exactly if the block id is empty and no state change survived: a commit
\* with a block id is stored even with no operation, a commit with an empty
\* block id and no surviving state change is a heartbeat whatever its number.
ParsedBlockId ==
  IF EventsOfFrame = <<>> THEN <<>>
  ELSE AttrValues(LastCommit, "block_id")[1].value

C31_SkipOnlyHeartbeat ==
  (HasFrame /\ handled \in {"Ok", "DBError"}) =>
    /\ EventsOfFrame # <<>> => (CommitsOfFrame # <<>> /\ WellFormedCommit(LastCommit))
    /\ calls = <<>> <=> (ParsedBlockId = <<>> /\ SurvivingChanges = <<>>)
    /\ calls = <<>> => handled = "Ok"
    /\ calls # <<>> =>
         /\ Len(calls) = 1
         /\ calls[1].block.block_id = ParsedBlockId
         /\ Len(calls[1].operations) = Len(SurvivingChanges)

C31_Witness ==
  /\ HasFrame
  /\ CommitsOfFrame = <<Commit42>>
  /\ Len(ChangesOfFrame) = 1
  /\ SurvivingChanges = <<>>
  /\ handled = "Ok"
  /\ calls = <<StorageCall(<<>>, Block(42, <<"B", "4", "2">>))>>

\* the heartbeat side of C31: a commit of block 42 with an empty block id
\* and only a foreign state change is skipped
C31_HeartbeatReached ==
  /\ HasFrame
  /\ CommitsOfFrame = <<Commit42EmptyId>>
  /\ Len(ChangesOfFrame) = 1
  /\ SurvivingChanges = <<>>
  /\ handled = "Ok"
  /\ calls = <<>>

\* C32: the subscribe requests of a run offer the known ids window after
\* window: every request holds 1 to 10 ids, the windows laid end to end are
\* the known list from its start, in order, none left out or repeated, only
\* the last window is shorter than 10, and the genesis sentinel is offered
\* only once all known ids were offered.
IsSentinel(r) == r.last_known_block_ids = <<NULL_BLOCK_ID>>

KnownWindows == SelectSeq(SubscribeRequests, LAMBDA r : ~IsSentinel(r))

OfferedIds ==
  FlattenSeq([k \in 1..Len(KnownWindows) |-> KnownWindows[k].last_known_block_ids])

C32_ConsecutiveWindows ==
  /\ \A k \in 1..Len(SubscribeRequests) :
       Len(SubscribeRequests[k].last_known_block_ids) \in 1..10
  /\ Len(OfferedIds) <= Len(known_block_ids)
  /\ OfferedIds = SubSeq(known_block_ids, 1, Len(OfferedIds))
  /\ \A k \in 1..(Len(KnownWindows) - 1) :
       Len(KnownWindows[k].last_known_block_ids) = 10
  /\ \A k \in 1..Len(SubscribeRequests) :
       IsSentinel(SubscribeRequests[k]) =>
         /\ OfferedIds = known_block_ids
         /\ \A j \in 1..Len(SubscribeRequests) :
              ~IsSentinel(SubscribeRequests[j]) => j < k

C32_Witness ==
  /\ Len(known_block_ids) = 15
  /\ Len(SubscribeRequests) = 3
  /\ Len(SubscribeRequests[1].last_known_block_ids) = 10
  /\ Len(SubscribeRequests[2].last_known_block_ids) = 5
  /\ IsSentinel(SubscribeRequests[3])
  /\ SubscribeRequests[3].reply = "none"
  /\ pc = "subscribing"

====
